---- MODULE Spec2Model ----
(***************************************************************************)
(* cuKING: the concurrent sample reader (ReadSamples on a ThreadPool), the *)
(* pairwise kernel (ComputeKingKernel) and the run of main().              *)
(*                                                                         *)
(* Sizes are counted in 64-bit words: a content of L words stands for a    *)
(* blob of 8*L bytes, so content->size() / sizeof(uint64_t) / 2 is         *)
(* L \div 2 and memcpy(..., content->size()) copies L words.               *)
(***************************************************************************)
EXTENDS Integers, Sequences, FiniteSets, TLC

\* ------------------------------------------------------------------ bounds
\* Largest number of entries of the sample map.
MaxSamples == 3
\* --num_reader_threads (the flag's default is 100).
NumThreads == 2
\* Largest value of --max_results that is drawn.
MaxResults == 2
\* Largest num_entries of the samples ComputeKing is applied to on its own.
MaxEntries == 2
\* Width of a bit-set word (uint64_t in the source).
WordBits == 2
\* Width of the kernel's thread index (the source computes it in 32 bits).
IndexBits == 2
\* Threads per block (kCudaBlockSize is 1024 in the source).
BlockSize == 2
\* Width of the cursor result_index[0] (uint32_t in the source).
CursorBits == 2
\* Width of ComputeKing's four counts (uint32_t in the source).
CountBits == 3
\* Width of a float's significand (24 bits in the source's float).
MantBits == 2

\* ------------------------------------------------------------- value sets
Words == 0..(2^WordBits - 1)
\* A word of managed memory that was allocated and never written.
Uninit == -1
\* Results of GcsClient::Read for a sample: an error status, or the blob.
ReadError == <<-2>>
SampleBlobs ==
  { <<>>, <<3, 0>>, <<1, 0>>, <<0, 3>>, <<3, 0, 1>>, <<1, 0, 2, 0>> }
\* An entry of the work queue that is the shutdown signal (nullptr).
Shutdown == -1
\* No holder of the reader's mutex.
Free == -1
\* The mutex after ~Mutex has run.
Destroyed == -2
\* A null CudaArray.
NullArray == [id |-> 0, words |-> <<>>]
\* std::optional<ReadSamplesResult>: not yet returned, empty, or a value.
NoSamples == [has |-> "none", num_entries |-> 0, bit_sets |-> NullArray]
Nullopt == [has |-> "nullopt", num_entries |-> 0, bit_sets |-> NullArray]
Some(r) == [has |-> "value", num_entries |-> r.num_entries, bit_sets |-> r.bit_sets]

VARIABLES
  pc,           \* position of the main thread
  exit_code,    \* -1 while the process runs, else the process exit status
  num_samples,  \* sample_paths.size()
  next_i,       \* ReadSamples: loop index of the scheduling loop
  queue_,       \* ThreadPool::queue_
  threads_,     \* ThreadPool::threads_: how many workers are idle, exited
  task,         \* per scheduled lambda: position and the local `content`
  count,        \* blocking_counter
  mutex,        \* ReadSamples' mutex: Free, Destroyed or the holding task
  success,      \* ReadSamples' std::atomic<bool> success
  result,       \* ReadSamples' result: num_entries, bit_sets
  allocs,       \* number of cudaMallocManaged buffers handed out
  samples,      \* main's `samples`: what ReadSamples returned
  hist,         \* what the reader tasks did (kept for the properties)
  bucket,       \* what GcsClient::Read may return for a sample path
  max_results,  \* kMaxResults
  coeff_threshold, \* --king_coeff_threshold as passed to the kernel
  results,      \* the reservoir: kMaxResults KingResult slots
  result_index, \* the cursor result_index[0]
  grid,         \* the launched kernel: threads not yet run, per index value
  result_map,   \* main's result_map
  output,       \* the document written to --output, if any
  khist         \* what the kernel threads did (kept for the properties)

kvars == <<max_results, coeff_threshold, results, result_index, grid,
           result_map, output, khist>>
rvars == <<num_samples, next_i, queue_, threads_, task, count, mutex, success,
           result, allocs, samples, hist>>
vars == <<pc, exit_code, rvars, bucket, kvars>>

\* ----------------------------------------------------------------- helpers
Running == exit_code = -1

\* exit(1) called by NewCudaArray, from whichever thread runs it.
ProcessExit ==
  /\ exit_code' = 1
  /\ pc' = "exited"

\* const size_t num_entries = content->size() / sizeof(uint64_t) / 2;
NumEntries(content) == Len(content) \div 2

\* NewCudaArray<T>(size) when cudaMallocManaged succeeds: the memory is not
\* cleared.
NewCudaArray(size) == [id |-> allocs + 1, words |-> [k \in 1..size |-> Uninit]]

\* memcpy(bit_sets.get() + i * 2 * num_entries, content->data(),
\*        content->size()): the words that land inside the buffer.
Memcpy(buf, i, num_entries, content) ==
  [buf EXCEPT !.words =
     [k \in 1..Len(buf.words) |->
        LET off == k - 1 - i * 2 * num_entries IN
        IF off >= 0 /\ off < Len(content) THEN content[off + 1]
        ELSE buf.words[k]]]

\* Whether that memcpy writes past the end of the buffer.
MemcpyOverruns(buf, i, num_entries, content) ==
  i * 2 * num_entries + Len(content) > Len(buf.words)

\* ------------------------------------------------------------ ThreadPool
\* The workers all run WorkLoop and are told apart by nothing, so threads_
\* counts them: idle (blocked in Await or about to be), exited, and the rest
\* each run the one lambda whose position says so.
Executing(t) == task[t].pc \in {"read", "shape", "copy", "dec", "unlock"}

\* Mutant of Schedule: the item is put at the front of the queue.
ScheduleAtFront(func) == queue_' = <<func>> \o queue_

\* ThreadPool::Schedule(func): push under mu_.
Schedule(func) == queue_' = Append(queue_, func)

\* ThreadPool::WorkAvailable.
WorkAvailable == queue_ # <<>>

\* ThreadPool::WorkLoop, one turn of one worker: await work, pop the front; a
\* nullptr ends the worker, anything else is run by it.
WorkLoop ==
  /\ Running
  /\ threads_.idle > 0
  /\ WorkAvailable
  /\ queue_' = Tail(queue_)
  /\ IF Head(queue_) = Shutdown
     THEN /\ threads_' = [idle |-> threads_.idle - 1, exited |-> threads_.exited + 1]
          /\ task' = task
     ELSE /\ threads_' = [threads_ EXCEPT !.idle = @ - 1]
          /\ task' = [task EXCEPT ![Head(queue_)].pc = "read",
                                  ![Head(queue_)].runs = @ + 1]
  /\ hist' = [hist EXCEPT !.popped = Append(@, Head(queue_))]
  /\ UNCHANGED <<pc, exit_code, num_samples, next_i, count, mutex, success,
                 result, allocs, samples>>
  /\ UNCHANGED <<bucket, kvars>>

\* The lambda returns: its worker goes back to the top of WorkLoop.
Finished == [threads_ EXCEPT !.idle = @ + 1]

\* Mutant of DecrementCount: one call counts twice.
DecrementCountTwice == count' = count - 2

\* absl::BlockingCounter::DecrementCount.
DecrementCount == count' = count - 1

\* ------------------------------------------------- ReadSamples: the lambda
\* auto content = gcs_client->Read(path); on an error: success = false.
TaskRead(t) ==
  /\ Running
  /\ task[t].pc = "read"
  /\ \E c \in bucket :
       /\ task' = [task EXCEPT ![t].content = c,
                               ![t].pc = IF c = ReadError THEN "dec" ELSE "shape"]
       /\ success' = IF c = ReadError THEN FALSE ELSE success
  /\ UNCHANGED <<pc, exit_code, num_samples, next_i, queue_, threads_, count,
                 mutex, result, allocs, samples, hist>>
  /\ UNCHANGED <<bucket, kvars>>

\* The first branch of the shape check: result.num_entries == 0, so this
\* task sets num_entries and allocates the matrix; cudaMallocManaged may
\* fail, and NewCudaArray then calls exit(1).
ShapeEstablish(t, ne) ==
  /\ result.num_entries = 0
  /\ hist' = [hist EXCEPT !.first = IF hist.first = -1 THEN ne ELSE hist.first]
  /\ \E err \in BOOLEAN :
       IF err
       THEN /\ ProcessExit
            /\ UNCHANGED <<result, allocs, mutex, task, success, count>>
       ELSE /\ result' = [num_entries |-> ne,
                          bit_sets |-> NewCudaArray(ne * 2 * num_samples)]
            /\ allocs' = allocs + 1
            /\ mutex' = Free
            /\ task' = [task EXCEPT ![t].pc = "copy"]
            /\ UNCHANGED <<pc, exit_code, success, count>>

\* The second branch: a different num_entries is a mismatch; the task sets
\* success = false and calls DecrementCount while it still holds the lock.
ShapeMismatch(t, ne) ==
  /\ result.num_entries # 0
  /\ result.num_entries # ne
  /\ success' = FALSE
  /\ DecrementCount
  /\ mutex' = t
  /\ task' = [task EXCEPT ![t].pc = "unlock", ![t].dec = @ + 1]
  /\ UNCHANGED <<pc, exit_code, result, allocs, hist>>

\* Neither branch: the sizes agree, the lock is released.
ShapeAgree(t, ne) ==
  /\ result.num_entries # 0
  /\ result.num_entries = ne
  /\ mutex' = Free
  /\ task' = [task EXCEPT ![t].pc = "copy"]
  /\ UNCHANGED <<pc, exit_code, result, allocs, success, count, hist>>

\* "Make sure the buffer is set and expected sizes match": the block that
\* takes the lock, up to the point where it releases it or, on a mismatch,
\* has called DecrementCount.
TaskShape(t) ==
  LET ne == NumEntries(task[t].content) IN
  /\ Running
  /\ task[t].pc = "shape"
  /\ mutex = Free
  /\ \/ ShapeEstablish(t, ne)
     \/ ShapeMismatch(t, ne)
     \/ ShapeAgree(t, ne)
  /\ UNCHANGED <<num_samples, next_i, queue_, threads_, samples>>
  /\ UNCHANGED <<bucket, kvars>>

\* The mismatch path leaves the block: ~MutexLock, then the lambda returns.
\* ReadSamples may already have destroyed the mutex.
TaskUnlock(t) ==
  /\ Running
  /\ task[t].pc = "unlock"
  /\ IF mutex = Destroyed
     THEN /\ hist' = [hist EXCEPT !.late = TRUE]
          /\ mutex' = mutex
     ELSE /\ mutex' = Free
          /\ hist' = hist
  /\ task' = [task EXCEPT ![t].pc = "done"]
  /\ threads_' = Finished
  /\ UNCHANGED <<pc, exit_code, num_samples, next_i, queue_, count, success,
                 result, allocs, samples>>
  /\ UNCHANGED <<bucket, kvars>>

\* "Copy to the destination buffer": memcpy into the buffer result.bit_sets
\* names now, without the lock.
TaskCopy(t) ==
  LET ne == NumEntries(task[t].content) IN
  /\ Running
  /\ task[t].pc = "copy"
  /\ result' = [result EXCEPT !.bit_sets = Memcpy(@, t, ne, task[t].content)]
  /\ hist' = [hist EXCEPT !.overrun =
                @ \/ MemcpyOverruns(result.bit_sets, t, ne, task[t].content)]
  /\ task' = [task EXCEPT ![t].pc = "dec"]
  /\ UNCHANGED <<pc, exit_code, num_samples, next_i, queue_, threads_, count,
                 mutex, success, allocs, samples>>
  /\ UNCHANGED <<bucket, kvars>>

\* blocking_counter.DecrementCount() that ends the read-error path and the
\* copy path; the lambda returns.
TaskDecrement(t) ==
  /\ Running
  /\ task[t].pc = "dec"
  /\ DecrementCount
  /\ task' = [task EXCEPT ![t].pc = "done", ![t].dec = @ + 1]
  /\ threads_' = Finished
  /\ UNCHANGED <<pc, exit_code, num_samples, next_i, queue_, mutex, success,
                 result, allocs, samples, hist>>
  /\ UNCHANGED <<bucket, kvars>>

\* ---------------------------------------------- ReadSamples: the caller
NoHist == [first |-> -1, overrun |-> FALSE, late |-> FALSE, popped |-> <<>>]

\* Entry: the pool starts its workers, then the counter, the mutex, the
\* result and the flag are constructed.
ReadSamplesBegin ==
  /\ Running
  /\ pc = "read_samples"
  /\ pc' = "rs_schedule"
  /\ threads_' = [idle |-> NumThreads, exited |-> 0]
  /\ queue_' = <<>>
  /\ count' = num_samples
  /\ mutex' = Free
  /\ result' = [num_entries |-> 0, bit_sets |-> NullArray]
  /\ success' = TRUE
  /\ next_i' = 0
  /\ task' = [t \in 0..(num_samples - 1) |->
                [pc |-> "new", content |-> <<>>, dec |-> 0, runs |-> 0]]
  /\ hist' = NoHist
  /\ UNCHANGED <<exit_code, num_samples, allocs, samples>>
  /\ UNCHANGED <<bucket, kvars>>

\* for (size_t i = 0; i < paths.size(); ++i) thread_pool.Schedule(...)
ReadSamplesSchedule ==
  /\ Running
  /\ pc = "rs_schedule"
  /\ IF next_i < num_samples
     THEN /\ Schedule(next_i)
          /\ task' = [task EXCEPT ![next_i].pc = "queued"]
          /\ next_i' = next_i + 1
          /\ pc' = pc
     ELSE /\ pc' = "rs_wait"
          /\ UNCHANGED <<queue_, task, next_i>>
  /\ UNCHANGED <<exit_code, num_samples, threads_, count, mutex, success,
                 result, allocs, samples, hist>>
  /\ UNCHANGED <<bucket, kvars>>

\* Mutant of WaitReturns: the wait is cut short once a task has failed.
WaitReturnsOnFailure == count = 0 \/ ~success

\* absl::BlockingCounter::Wait returns once the count has reached zero.
WaitReturns == count = 0

\* Mutant of ReadSamplesReturn: the result is returned whatever the flag says.
ReadSamplesReturnResult == Some(result)

\* return success ? std::move(result) : std::optional<ReadSamplesResult>();
ReadSamplesReturn == IF success THEN Some(result) ELSE Nullopt

\* blocking_counter.Wait(); then the return value is built from success, and
\* success, result, mutex and blocking_counter are destroyed.
ReadSamplesWait ==
  /\ Running
  /\ pc = "rs_wait"
  /\ WaitReturns
  /\ pc' = "rs_shutdown"
  /\ samples' = ReadSamplesReturn
  /\ mutex' = Destroyed
  /\ UNCHANGED <<exit_code, num_samples, next_i, queue_, threads_, task, count,
                 success, result, allocs, hist>>
  /\ UNCHANGED <<bucket, kvars>>

\* Mutant of ShutdownSignals: one shutdown signal too few.
ShutdownSignalsShort == [k \in 1..(NumThreads - 1) |-> Shutdown]

\* for (size_t i = 0; i < threads_.size(); i++) queue_.push(nullptr);
ShutdownSignals == [k \in 1..NumThreads |-> Shutdown]

\* ~ThreadPool, first half: one nullptr per worker, under mu_.
PoolShutdown ==
  /\ Running
  /\ pc = "rs_shutdown"
  /\ queue_' = queue_ \o ShutdownSignals
  /\ pc' = "rs_join"
  /\ UNCHANGED <<exit_code, num_samples, next_i, threads_, task, count, mutex,
                 success, result, allocs, samples, hist>>
  /\ UNCHANGED <<bucket, kvars>>

\* ~ThreadPool, second half: join every worker; ReadSamples has returned.
PoolJoin ==
  /\ Running
  /\ pc = "rs_join"
  /\ threads_.exited = NumThreads
  /\ pc' = "rs_returned"
  /\ UNCHANGED <<exit_code, num_samples, next_i, queue_, threads_, task, count,
                 mutex, success, result, allocs, samples, hist>>
  /\ UNCHANGED <<bucket, kvars>>

Worker ==
  \/ WorkLoop
  \/ \E t \in DOMAIN task :
       \/ TaskRead(t)
       \/ TaskShape(t)
       \/ TaskUnlock(t)
       \/ TaskCopy(t)
       \/ TaskDecrement(t)

ReadSamples ==
  \/ ReadSamplesBegin
  \/ ReadSamplesSchedule
  \/ ReadSamplesWait
  \/ PoolShutdown
  \/ PoolJoin

\* ------------------------------------------------------------ ComputeKing
\* A float: a finite ratio num/den (den > 0), or what a division by zero
\* gives, or the value computed from memory that was never written.
Fin(n, d) == [k |-> "fin", num |-> n, den |-> d]
NaN == [k |-> "nan", num |-> 0, den |-> 1]
NegInf == [k |-> "-inf", num |-> 0, den |-> 1]
PosInf == [k |-> "+inf", num |-> 0, den |-> 1]
Garbage == [k |-> "garbage", num |-> 0, den |-> 1]

RECURSIVE AndBits(_, _, _)
AndBits(a, b, n) ==
  IF n = 0 THEN 0
  ELSE (a % 2) * (b % 2) + 2 * AndBits(a \div 2, b \div 2, n - 1)
\* a & b, a | b, ~a on words of WordBits bits (a & b tabulated once).
AndTable == [p \in Words \X Words |-> AndBits(p[1], p[2], WordBits)] @@ <<>>
And(a, b) == AndTable[<<a, b>>]
Or(a, b) == a + b - And(a, b)
Not(a) == 2^WordBits - 1 - a
\* __popcll (tabulated once)
RECURSIVE PopBits(_)
PopBits(a) == IF a = 0 THEN 0 ELSE (a % 2) + PopBits(a \div 2)
PopTable == [a \in Words |-> PopBits(a)] @@ <<>>
Popcll(a) == PopTable[a]

\* Mutant of WordCounts: both_het is counted without the missing mask.
WordCountsUnmasked(het_i, hom_alt_i, het_j, hom_alt_j) ==
  LET hom_ref_i == And(Not(het_i), Not(hom_alt_i))
      hom_ref_j == And(Not(het_j), Not(hom_alt_j))
      missing_mask_i == Not(And(het_i, hom_alt_i))
      missing_mask_j == Not(And(het_j, hom_alt_j))
      missing_mask == And(missing_mask_i, missing_mask_j)
  IN [num_het_i |-> Popcll(And(het_i, missing_mask_i)),
      num_het_j |-> Popcll(And(het_j, missing_mask_j)),
      num_both_het |-> Popcll(And(het_i, het_j)),
      num_opposing_hom |->
        Popcll(And(Or(And(hom_ref_i, hom_alt_j), And(hom_ref_j, hom_alt_i)),
                   missing_mask))]

\* What one word of the loop adds to the four counts.
WordCounts(het_i, hom_alt_i, het_j, hom_alt_j) ==
  LET hom_ref_i == And(Not(het_i), Not(hom_alt_i))
      hom_ref_j == And(Not(het_j), Not(hom_alt_j))
      missing_mask_i == Not(And(het_i, hom_alt_i))
      missing_mask_j == Not(And(het_j, hom_alt_j))
      missing_mask == And(missing_mask_i, missing_mask_j)
  IN [num_het_i |-> Popcll(And(het_i, missing_mask_i)),
      num_het_j |-> Popcll(And(het_j, missing_mask_j)),
      num_both_het |-> Popcll(And(And(het_i, het_j), missing_mask)),
      num_opposing_hom |->
        Popcll(And(Or(And(hom_ref_i, hom_alt_j), And(hom_ref_j, hom_alt_i)),
                   missing_mask))]

\* The four counts of ComputeKing after num_entries words, each a uint32_t
\* that wraps at its width. A pointer is the memory it points into (mem, a
\* sequence of words) and a word offset.
RECURSIVE KingCounts(_, _, _, _, _, _)
KingCounts(num_entries, mem, het_i_entries, hom_alt_i_entries, het_j_entries, hom_alt_j_entries) ==
  IF num_entries = 0
  THEN [num_het_i |-> 0, num_het_j |-> 0, num_both_het |-> 0, num_opposing_hom |-> 0]
  ELSE LET k == num_entries
           c == WordCounts(mem[het_i_entries + k], mem[hom_alt_i_entries + k],
                           mem[het_j_entries + k], mem[hom_alt_j_entries + k])
           r == KingCounts(num_entries - 1, mem, het_i_entries, hom_alt_i_entries,
                           het_j_entries, hom_alt_j_entries)
       IN [num_het_i |-> (r.num_het_i + c.num_het_i) % 2^CountBits,
           num_het_j |-> (r.num_het_j + c.num_het_j) % 2^CountBits,
           num_both_het |-> (r.num_both_het + c.num_both_het) % 2^CountBits,
           num_opposing_hom |->
             (r.num_opposing_hom + c.num_opposing_hom) % 2^CountBits]

\* A float has a significand of MantBits bits: the value n/d (d > 0) rounded
\* to the nearest such number, ties to the even significand. Normalize scales
\* n/d > 0 into [2^(MantBits-1), 2^MantBits) and keeps the exponent.
RECURSIVE Normalize(_, _, _)
Normalize(n, d, e) ==
  IF n >= 2^MantBits * d THEN Normalize(n, 2 * d, e + 1)
  ELSE IF n < 2^(MantBits - 1) * d THEN Normalize(2 * n, d, e - 1)
  ELSE [n |-> n, d |-> d, e |-> e]

\* n/d in lowest terms, d a power of two.
RECURSIVE Reduce(_, _)
Reduce(n, d) ==
  IF d > 1 /\ n % 2 = 0 THEN Reduce(n \div 2, d \div 2) ELSE Fin(n, d)

RoundToFloat(n, d) ==
  IF n = 0 THEN Fin(0, 1)
  ELSE LET s == IF n < 0 THEN -1 ELSE 1
           v == Normalize(s * n, d, 0)
           fl == v.n \div v.d
           rem == v.n % v.d
           m == IF 2 * rem > v.d \/ (2 * rem = v.d /\ fl % 2 = 1)
                THEN fl + 1 ELSE fl
       IN IF v.e >= 0 THEN Reduce(s * m * 2^v.e, 1)
          ELSE Reduce(s * m, 2^(0 - v.e))

\* uint32_t to float, and the float operations on finite values, each
\* rounded once.
ToFloat(u) == RoundToFloat(u, 1)
FMul(x, y) == RoundToFloat(x.num * y.num, x.den * y.den)
FAdd(x, y) == RoundToFloat(x.num * y.den + y.num * x.den, x.den * y.den)
FSub(x, y) == RoundToFloat(x.num * y.den - y.num * x.den, x.den * y.den)
FDiv(x, y) == RoundToFloat(x.num * y.den, x.den * y.num)

\* 2.f * num_both_het - 4.f * num_opposing_hom - num_het_i - num_het_j, left
\* to right in float.
KingNumerator(c) ==
  FSub(FSub(FSub(FMul(Fin(2, 1), ToFloat(c.num_both_het)),
                 FMul(Fin(4, 1), ToFloat(c.num_opposing_hom))),
            ToFloat(c.num_het_i)),
       ToFloat(c.num_het_j))

\* The "between-family" estimator: 0.5f + numerator / (4.f * min_hets), the
\* division as IEEE 754 does it when min_hets is 0.
KingEstimate(c) ==
  LET min_hets == IF c.num_het_i < c.num_het_j THEN c.num_het_i ELSE c.num_het_j
      numerator == KingNumerator(c)
      denominator == FMul(Fin(4, 1), ToFloat(min_hets))
  IN IF min_hets > 0 THEN FAdd(Fin(1, 2), FDiv(numerator, denominator))
     ELSE IF numerator.num = 0 THEN NaN
     ELSE IF numerator.num < 0 THEN NegInf
     ELSE PosInf

\* The estimator, tabulated once over the values the four counts can take.
CountValues == 0..(2^CountBits - 1)
KingTable ==
  [c \in [num_het_i : CountValues, num_het_j : CountValues,
          num_both_het : CountValues, num_opposing_hom : CountValues] |->
     KingEstimate(c)] @@ <<>>
KingEstimator(c) == KingTable[c]

\* ComputeKing over initialised words; over uninitialised words the value is
\* whatever the memory held.
ComputeKing(num_entries, mem, het_i_entries, hom_alt_i_entries, het_j_entries, hom_alt_j_entries) ==
  IF \E k \in 1..num_entries :
       Uninit \in {mem[het_i_entries + k], mem[hom_alt_i_entries + k],
                   mem[het_j_entries + k], mem[hom_alt_j_entries + k]}
  THEN Garbage
  ELSE KingEstimator(KingCounts(num_entries, mem, het_i_entries,
                                hom_alt_i_entries, het_j_entries,
                                hom_alt_j_entries))

\* coeff > coeff_threshold for a finite threshold.
Exceeds(coeff, threshold) ==
  CASE coeff.k = "fin" -> coeff.num * threshold.den > threshold.num * coeff.den
    [] coeff.k = "+inf" -> TRUE
    [] OTHER -> FALSE

\* ------------------------------------------------------ ComputeKingKernel
\* A zeroed KingResult (memset).
ZeroResult == [sample_i |-> 0, sample_j |-> 0, coeff |-> Fin(0, 1)]

\* Returns ceil(a / b) for integers a, b.
CeilIntDiv(a, b) == (a + b - 1) \div b

\* const int index = blockIdx.x * blockDim.x + threadIdx.x, in IndexBits bits.
KernelIndex(blockIdx, threadIdx) == (blockIdx * BlockSize + threadIdx) % 2^IndexBits

\* The grid of <<<kNumCudaBlocks, kCudaBlockSize>>>: for each index value, the
\* number of threads that compute it.
Grid(n) ==
  LET kNumCudaBlocks == CeilIntDiv(n * n, BlockSize) IN
  [x \in 0..(2^IndexBits - 1) |->
     Cardinality({bt \in (0..(kNumCudaBlocks - 1)) \X (0..(BlockSize - 1)) :
                    KernelIndex(bt[1], bt[2]) = x})]

\* Mutant of KernelSkips: the self-pairs i = j are let through.
KernelSkipsBelowOnly(i, j, n) == i >= n \/ i > j

\* if (i >= num_samples || i >= j) return;
KernelSkips(i, j, n) == i >= n \/ i >= j

\* The coefficient the kernel computes for samples i and j of a matrix:
\* ComputeKing on bit_sets + i * 2 * num_entries and so on.
KernelCoeff(m, i, j) ==
  ComputeKing(m.num_entries, m.bit_sets.words,
              i * 2 * m.num_entries, (i * 2 + 1) * m.num_entries,
              j * 2 * m.num_entries, (j * 2 + 1) * m.num_entries)

\* if (coeff > coeff_threshold): atomicAdd on the uint32_t cursor (which wraps
\* at its width), then the slot if the reserved value is in range.
KernelCollect(i, j, coeff) ==
  LET reserved == result_index IN
  /\ result_index' = (result_index + 1) % 2^CursorBits
  /\ results' = IF reserved < max_results
                THEN [results EXCEPT ![reserved + 1] =
                        [sample_i |-> i, sample_j |-> j, coeff |-> coeff]]
                ELSE results
  /\ khist' = [khist EXCEPT !.wrote = IF reserved < max_results
                                      THEN Append(@, reserved) ELSE @,
                            !.reserved = Append(@, reserved),
                            !.matched = @ + 1]

\* One thread of ComputeKingKernel, the one whose index is x.
ComputeKingKernel(x) ==
  LET i == x \div num_samples
      j == x % num_samples
  IN
  /\ Running
  /\ pc \in {"sync", "reset", "overflow", "collect", "write"}
  /\ grid[x] > 0
  /\ grid' = [grid EXCEPT ![x] = @ - 1]
  /\ IF KernelSkips(i, j, num_samples)
     THEN UNCHANGED <<results, result_index, khist>>
     ELSE IF samples.bit_sets.id = 0
     THEN /\ khist' = [khist EXCEPT !.freed_read = TRUE]
          /\ UNCHANGED <<results, result_index>>
     ELSE \E coeff \in {KernelCoeff(samples, i, j)} :
          \E above \in IF coeff.k = "garbage" THEN BOOLEAN
                       ELSE {Exceeds(coeff, coeff_threshold)} :
            IF above THEN KernelCollect(i, j, coeff)
            ELSE UNCHANGED <<results, result_index, khist>>
  /\ UNCHANGED <<pc, exit_code, rvars, bucket, max_results, coeff_threshold,
                 result_map, output>>

Kernel == \E x \in DOMAIN grid : ComputeKingKernel(x)

\* ------------------------------------------------------------------- main
\* return <code>; from main.
Return(code) ==
  /\ exit_code' = code
  /\ pc' = "returned"

NoKhist == [wrote |-> <<>>, reserved |-> <<>>, matched |-> 0, freed_read |-> FALSE,
            stages |-> <<>>, truth |-> {}]
Stage(s) == khist' = [khist EXCEPT !.stages = Append(@, s)]

\* The pairs i < j of a matrix whose coefficient exceeds the threshold, each
\* with its coefficient (kept in khist when the kernel is launched, since the
\* matrix is freed before the results are used).
QualifyingPairs(m, n, threshold) ==
  {[sample_i |-> p[1], sample_j |-> p[2], coeff |-> KernelCoeff(m, p[1], p[2])] :
     p \in {q \in (0..(n - 1)) \X (0..(n - 1)) :
              /\ q[1] < q[2]
              /\ Exceeds(KernelCoeff(m, q[1], q[2]), threshold)}}

\* --king_coeff_threshold values: the default 0.0442, and 0.3.
Thresholds == { Fin(221, 5000), Fin(3, 10) }

InitKernel ==
  /\ max_results = 0
  /\ coeff_threshold = Fin(0, 1)
  /\ results = <<>>
  /\ result_index = 0
  /\ grid = <<>>
  /\ result_map = {}
  /\ output = [written |-> FALSE, doc |-> {}]
  /\ khist = NoKhist

\* --sample_map is empty: "no sample map file specified", return 1.
CheckFlags ==
  /\ Running
  /\ pc = "start"
  /\ \E empty \in BOOLEAN :
       IF empty THEN Return(1) /\ UNCHANGED khist
       ELSE pc' = "load_map" /\ exit_code' = exit_code /\ UNCHANGED khist
  /\ UNCHANGED <<rvars, bucket, max_results, coeff_threshold, results,
                 result_index, grid, result_map, output>>

\* gcs_client->Read(sample_map_file): an error status returns 1.
LoadSampleMap ==
  /\ Running
  /\ pc = "load_map"
  /\ \E ok \in BOOLEAN :
       IF ok THEN pc' = "parse" /\ exit_code' = exit_code /\ Stage("load")
       ELSE Return(1) /\ Stage("load")
  /\ UNCHANGED <<rvars, bucket, max_results, coeff_threshold, results,
                 result_index, grid, result_map, output>>

\* The map's entries become sample_ids and sample_paths; ReadSamples is
\* called with the paths.
ParseSampleMap ==
  /\ Running
  /\ pc = "parse"
  /\ num_samples' \in 0..MaxSamples
  /\ pc' = "read_samples"
  /\ Stage("read")
  /\ UNCHANGED <<exit_code, next_i, queue_, threads_, task, count, mutex,
                 success, result, allocs, samples, hist, bucket, max_results,
                 coeff_threshold, results, result_index, grid, result_map,
                 output>>

\* Mutant of ReaderFailed: main goes on without looking at the optional.
ReaderFailedIgnored == FALSE

\* !samples
ReaderFailed == samples.has = "nullopt"

\* if (!samples) return 1; the reader's locals are gone by now.
CheckSamples ==
  /\ Running
  /\ pc = "rs_returned"
  /\ IF ReaderFailed
     THEN Return(1)
     ELSE pc' = "alloc" /\ exit_code' = exit_code
  /\ task' = <<>>
  /\ hist' = NoHist
  /\ UNCHANGED <<num_samples, next_i, queue_, threads_, count, mutex, success,
                 result, allocs, samples, bucket, kvars>>

\* The reservoir and the cursor are allocated (either allocation may fail:
\* exit(1)), the reservoir zeroed, the cursor set to 0.
AllocResults ==
  /\ Running
  /\ pc = "alloc"
  /\ \E kMaxResults \in 0..MaxResults, err \in BOOLEAN :
       IF err
       THEN /\ ProcessExit
            /\ UNCHANGED <<max_results, results, result_index, allocs>>
       ELSE /\ max_results' = kMaxResults
            /\ results' = [k \in 1..kMaxResults |-> ZeroResult]
            /\ result_index' = 0
            /\ allocs' = allocs + 2
            /\ pc' = "launch"
            /\ exit_code' = exit_code
  /\ UNCHANGED <<num_samples, next_i, queue_, threads_, task, count, mutex,
                 success, result, samples, hist, bucket, coeff_threshold, grid,
                 result_map, output, khist>>

\* ComputeKingKernel<<<kNumCudaBlocks, kCudaBlockSize>>>(...)
LaunchKernel ==
  /\ Running
  /\ pc = "launch"
  /\ coeff_threshold' \in Thresholds
  /\ grid' = Grid(num_samples)
  /\ pc' = "sync"
  /\ khist' = [khist EXCEPT
                !.stages = Append(@, "kernel"),
                !.truth = QualifyingPairs(samples, num_samples, coeff_threshold')]
  /\ UNCHANGED <<exit_code, rvars, bucket, max_results, results, result_index,
                 result_map, output>>

\* Mutant of KernelDone: cudaDeviceSynchronize returns at once.
KernelDoneUnchecked == TRUE

\* Every thread of the grid has run.
KernelDone == \A x \in DOMAIN grid : grid[x] = 0

\* cudaDeviceSynchronize(): "wait for GPU to finish".
Synchronize ==
  /\ Running
  /\ pc = "sync"
  /\ KernelDone
  /\ pc' = "reset"
  /\ Stage("sync")
  /\ UNCHANGED <<exit_code, rvars, bucket, max_results, coeff_threshold, results,
                 result_index, grid, result_map, output>>

\* samples->bit_sets.reset(): cudaFree of the matrix.
ResetBitSets ==
  /\ Running
  /\ pc = "reset"
  /\ samples' = [samples EXCEPT !.bit_sets = NullArray]
  /\ pc' = "overflow"
  /\ Stage("release")
  /\ UNCHANGED <<exit_code, num_samples, next_i, queue_, threads_, task, count,
                 mutex, success, result, allocs, hist, bucket, max_results,
                 coeff_threshold, results, result_index, grid, result_map,
                 output>>

\* if (num_results > kMaxResults) return 1;
CheckOverflow ==
  /\ Running
  /\ pc = "overflow"
  /\ IF result_index > max_results
     THEN Return(1)
     ELSE pc' = "collect" /\ exit_code' = exit_code
  /\ UNCHANGED <<rvars, bucket, kvars>>

\* sample_ids[i]: the i-th key of the parsed sample map, whose keys are
\* sorted and unique; an id is told from an index by its type.
SampleId(i) == <<"id", i>>

\* result_map[sample_ids[sample_i]][sample_ids[sample_j]] = coeff for the
\* first num_results slots; sample i's id is the i-th key of the sample map.
ResultMap(num_results) ==
  LET keys == {<<results[k].sample_i, results[k].sample_j>> : k \in 1..num_results}
      last(key) == CHOOSE k \in 1..num_results :
                     /\ <<results[k].sample_i, results[k].sample_j>> = key
                     /\ \A l \in 1..num_results :
                          <<results[l].sample_i, results[l].sample_j>> = key => l <= k
  IN {[outer |-> SampleId(key[1]), inner |-> SampleId(key[2]),
        coeff |-> results[last(key)].coeff] : key \in keys}

CollectResults ==
  /\ Running
  /\ pc = "collect"
  /\ result_map' = ResultMap(result_index)
  /\ pc' = "write"
  /\ Stage("collect")
  /\ UNCHANGED <<exit_code, rvars, bucket, max_results, coeff_threshold, results,
                 result_index, grid, output>>

\* gcs_client->Write(output, json(result_map).dump(4)): a bad status returns
\* 1, otherwise main returns 0.
WriteOutput ==
  /\ Running
  /\ pc = "write"
  /\ \E ok \in BOOLEAN :
       IF ok
       THEN /\ output' = [written |-> TRUE, doc |-> result_map]
            /\ Return(0)
       ELSE /\ output' = output
            /\ Return(1)
  /\ Stage("write")
  /\ UNCHANGED <<rvars, bucket, max_results, coeff_threshold, results,
                 result_index, grid, result_map>>

Main ==
  \/ CheckFlags
  \/ LoadSampleMap
  \/ ParseSampleMap
  \/ CheckSamples
  \/ AllocResults
  \/ LaunchKernel
  \/ Synchronize
  \/ ResetBitSets
  \/ CheckOverflow
  \/ CollectResults
  \/ WriteOutput

\* Two well-formed samples of one word per bit-set (sample A: both markers
\* heterozygous; sample B: one), or a failed read.
RunBlobs == { <<3, 0>>, <<1, 0>>, ReadError }

Init ==
  /\ pc = "start"
  /\ exit_code = -1
  /\ num_samples = 0
  /\ next_i = 0
  /\ queue_ = <<>>
  /\ threads_ = [idle |-> 0, exited |-> 0]
  /\ task = <<>>
  /\ count = 0
  /\ mutex = Free
  /\ success = TRUE
  /\ result = [num_entries |-> 0, bit_sets |-> NullArray]
  /\ allocs = 0
  /\ samples = NoSamples
  /\ hist = NoHist
  /\ bucket = RunBlobs
  /\ InitKernel

Next == Main \/ ReadSamples \/ Worker \/ Kernel

Spec == Init /\ [][Next]_vars

\* ReadSamples called with 0..MaxSamples paths.
InitRead ==
  /\ pc = "read_samples"
  /\ exit_code = -1
  /\ num_samples \in 0..MaxSamples
  /\ next_i = 0
  /\ queue_ = <<>>
  /\ threads_ = [idle |-> 0, exited |-> 0]
  /\ task = <<>>
  /\ count = 0
  /\ mutex = Free
  /\ success = TRUE
  /\ result = [num_entries |-> 0, bit_sets |-> NullArray]
  /\ allocs = 0
  /\ samples = NoSamples
  /\ hist = NoHist
  /\ bucket = SampleBlobs \cup {ReadError}
  /\ InitKernel

NextRead == ReadSamples \/ Worker

SpecRead == InitRead /\ [][NextRead]_vars

\* ComputeKing on its own: a matrix of two samples of 1..MaxEntries words per
\* bit-set, the words drawn so that every combination of genotypes occurs at
\* every bit position, and one call on the pair (0, 1) as the kernel makes it.
HetWords == { 0, 1, 2^WordBits - 1 }
HomAltWords == { 0, 2^WordBits - 1 }

\* Whether word k of a matrix of two samples belongs to a het bit-set (the
\* first num_entries words of a sample's region) or to a hom_alt bit-set.
InHetBitSet(k, ne) == ((k - 1) \div ne) % 2 = 0

InitKing ==
  /\ pc = "king"
  /\ exit_code = -1
  /\ num_samples = 2
  /\ next_i = 0
  /\ queue_ = <<>>
  /\ threads_ = [idle |-> 0, exited |-> 0]
  /\ task = <<>>
  /\ count = 0
  /\ mutex = Free
  /\ success = TRUE
  /\ result = [num_entries |-> 0, bit_sets |-> NullArray]
  /\ allocs = 1
  /\ \E ne \in 1..MaxEntries :
       \E w \in {v \in [1..(4 * ne) -> HetWords \cup HomAltWords] :
                   \A k \in 1..(4 * ne) :
                     v[k] \in IF InHetBitSet(k, ne) THEN HetWords ELSE HomAltWords} :
         samples = Some([num_entries |-> ne, bit_sets |-> [id |-> 1, words |-> w]])
  /\ hist = NoHist
  /\ bucket = {}
  /\ InitKernel

\* const float coeff = ComputeKing(num_entries, bit_sets + i * 2 * num_entries,
\* ...) for i = 0 and j = 1; the counts are kept next to the coefficient.
ComputeKingCall ==
  /\ pc = "king"
  /\ pc' = "king_done"
  /\ results' = <<[counts |-> KingCounts(samples.num_entries, samples.bit_sets.words,
                                         0, samples.num_entries,
                                         2 * samples.num_entries,
                                         3 * samples.num_entries),
                   coeff |-> KernelCoeff(samples, 0, 1)]>>
  /\ UNCHANGED <<exit_code, rvars, bucket, max_results, coeff_threshold,
                 result_index, grid, result_map, output, khist>>

SpecKing == InitKing /\ [][ComputeKingCall]_vars

\* ComputeKing once more on the same matrix with the two samples exchanged,
\* ComputeKing(num_entries, bit_sets + j * 2 * num_entries, ...,
\* bit_sets + i * 2 * num_entries, ...) for i = 0 and j = 1: the call the
\* kernel's guard i >= j leaves out.
ComputeKingSwappedCall ==
  /\ pc = "king_done"
  /\ pc' = "king_swapped"
  /\ results' = Append(results,
                       [counts |-> KingCounts(samples.num_entries,
                                              samples.bit_sets.words,
                                              2 * samples.num_entries,
                                              3 * samples.num_entries,
                                              0, samples.num_entries),
                        coeff |-> KernelCoeff(samples, 1, 0)])
  /\ UNCHANGED <<exit_code, rvars, bucket, max_results, coeff_threshold,
                 result_index, grid, result_map, output, khist>>

NextKingPair == ComputeKingCall \/ ComputeKingSwappedCall

SpecKingPair == InitKing /\ [][NextKingPair]_vars

\* ComputeKing on bit-sets long enough for a count to reach its width: two
\* samples of LongEntries words per bit-set, 2^CountBits markers, each word
\* all zeros or all ones.
LongEntries == 2^CountBits \div WordBits
LongWords == { 0, 2^WordBits - 1 }

InitKingLong ==
  /\ pc = "king"
  /\ exit_code = -1
  /\ num_samples = 2
  /\ next_i = 0
  /\ queue_ = <<>>
  /\ threads_ = [idle |-> 0, exited |-> 0]
  /\ task = <<>>
  /\ count = 0
  /\ mutex = Free
  /\ success = TRUE
  /\ result = [num_entries |-> 0, bit_sets |-> NullArray]
  /\ allocs = 1
  /\ \E w \in [1..(4 * LongEntries) -> LongWords] :
       samples = Some([num_entries |-> LongEntries,
                       bit_sets |-> [id |-> 1, words |-> w]])
  /\ hist = NoHist
  /\ bucket = {}
  /\ InitKernel

SpecKingLong == InitKingLong /\ [][ComputeKingCall]_vars

\* ReadSamples with its threads scheduled fairly: a worker that can take a
\* step and a caller that can take a step eventually do. The contents read
\* are few, to keep the pool in the foreground.
PoolBlobs == { <<3, 0>>, <<1, 0, 2, 0>>, ReadError }

InitPool ==
  /\ pc = "read_samples"
  /\ exit_code = -1
  /\ num_samples \in 0..MaxSamples
  /\ next_i = 0
  /\ queue_ = <<>>
  /\ threads_ = [idle |-> 0, exited |-> 0]
  /\ task = <<>>
  /\ count = 0
  /\ mutex = Free
  /\ success = TRUE
  /\ result = [num_entries |-> 0, bit_sets |-> NullArray]
  /\ allocs = 0
  /\ samples = NoSamples
  /\ hist = NoHist
  /\ bucket = PoolBlobs
  /\ InitKernel

SpecPool == InitPool /\ [][NextRead]_vars /\ WF_vars(Worker) /\ WF_vars(ReadSamples)

\* ============================================================ properties
InStages(s) == \E k \in DOMAIN khist.stages : khist.stages[k] = s
GridDrained == \A x \in DOMAIN grid : grid[x] = 0
AfterWait == pc \in {"rs_shutdown", "rs_join", "rs_returned"}
ReadOk(t) == task[t].content # ReadError

\* C1: once blocking_counter.Wait() has returned (and so when ReadSamples
\* returns, with success or failure), every scheduled task has been run and
\* has called DecrementCount; a failure recorded by one task does not let
\* ReadSamples get there earlier nor keep another task from running.
C1_ReturnAfterAllSignaled ==
  AfterWait => \A t \in DOMAIN task : task[t].runs >= 1 /\ task[t].dec >= 1

\* C1 witness: ReadSamples has returned failure for three paths, one task hit
\* a read error and another one copied its sample and signaled.
C1_Witness ==
  /\ pc = "rs_returned"
  /\ num_samples = 3
  /\ samples.has = "nullopt"
  /\ \E t, u \in DOMAIN task :
       /\ ~ReadOk(t)
       /\ ReadOk(u)
       /\ task[u].pc = "done"
       /\ task[u].dec = 1

\* C2: when more pairs i < j exceed the threshold than max_results, the run
\* ends at the overflow check with a non-zero exit and writes no output; an
\* output that was written never holds fewer entries than there are
\* qualifying pairs.
C2_OverflowSafety ==
  /\ (pc = "returned" /\ InStages("kernel")
        /\ Cardinality(khist.truth) > max_results)
       => (exit_code # 0 /\ ~output.written /\ ~InStages("collect"))
  /\ output.written => Cardinality(output.doc) >= Cardinality(khist.truth)

C4_Step ==
  /\ \A s \in DOMAIN results \cap DOMAIN results' :
       results'[s] # results[s] =>
         /\ results'[s].sample_i < results'[s].sample_j
         /\ results'[s].sample_j < num_samples
  /\ (result_index' # result_index /\ pc # "alloc") =>
       \E x \in DOMAIN grid :
         /\ grid'[x] < grid[x]
         /\ ~(x \div num_samples >= num_samples)
         /\ x \div num_samples < x % num_samples
C4_DedupInvariant == [][C4_Step]_vars

\* C4 witness: the whole grid has run (skipping threads included) and two
\* slots were written.
C4_Witness ==
  /\ pc = "reset"
  /\ num_samples = 3
  /\ Len(khist.wrote) = 2

\* C5: once the kernel has completed with the cursor within max_results, the
\* slots [0, cursor) hold exactly the qualifying pairs, each once with its
\* coefficient; with no qualifying pair the cursor is 0 and a written output
\* is the empty map.
C5_KernelComplete ==
  (InStages("sync") /\ result_index <= max_results) =>
    /\ result_index = Cardinality(khist.truth)
    /\ {results[k] : k \in 1..result_index} = khist.truth
    /\ (khist.truth = {} => (output.written => output.doc = {}))

\* C6: once the kernel has completed, the cursor equals the number of
\* qualifying pairs, whatever max_results is; every thread above the
\* threshold was counted, and only those that reserved a value below
\* max_results wrote a slot.
C6_CursorCountsMatches ==
  InStages("sync") =>
    /\ result_index = Cardinality(khist.truth)
    /\ result_index = khist.matched
    /\ Len(khist.wrote) = IF result_index < max_results THEN result_index
                          ELSE max_results

\* C7: when ReadSamples has returned and the read of at least one locator
\* failed, the return value is the empty optional: no matrix is handed out.
C7_UnreadableLocatorFails ==
  (pc = "rs_returned" /\ \E t \in DOMAIN task : ~ReadOk(t)) => samples = Nullopt

\* C7 witness: three locators, one unreadable, the two others copied into an
\* allocated matrix, and ReadSamples has returned.
C7_Witness ==
  /\ pc = "rs_returned"
  /\ num_samples = 3
  /\ Cardinality({t \in DOMAIN task : ReadOk(t) /\ task[t].pc = "done"
                                     /\ Len(task[t].content) = 2}) = 2
  /\ Cardinality({t \in DOMAIN task : ~ReadOk(t)}) = 1
  /\ result.bit_sets.id # 0
  /\ Uninit \notin {result.bit_sets.words[k] : k \in 1..2}

\* C8: when ReadSamples returns a value for n >= 1 locators, it is the one
\* buffer that was allocated, of n * 2 * num_entries words, and the words of
\* sample i's region are the words read for locator i.
C8_MatrixFullyPopulated ==
  (pc = "rs_returned" /\ samples.has = "value" /\ num_samples >= 1) =>
    LET ne == samples.num_entries
        w == samples.bit_sets.words
    IN /\ allocs = 1
       /\ Len(w) = num_samples * 2 * ne
       /\ \A i \in DOMAIN task : \A k \in 1..(2 * ne) :
            /\ k <= Len(task[i].content)
            /\ w[i * 2 * ne + k] = task[i].content[k]

\* C9: the matrix is released only after the barrier that follows the
\* launch: whenever bit_sets has been reset, or main has ended after a
\* launch (which frees the reservoir), every thread of the grid has run; no
\* thread ever read a released matrix.
C9_ReleaseAfterKernel ==
  /\ ~khist.freed_read
  /\ InStages("release") => (InStages("sync") /\ GridDrained)
  /\ (pc \in {"returned", "exited"} /\ InStages("kernel")) => GridDrained

\* C9 witness: the matrix has been released after a kernel whose threads
\* wrote two slots.
C9_Witness ==
  /\ pc = "overflow"
  /\ samples.bit_sets = NullArray
  /\ Len(khist.wrote) = 2

\* C10: the stages happen in the one order load, read, kernel, synchronize,
\* release, collect, write; a run that has ended takes no further step; the
\* kernel is not launched after a reader failure, nothing is written after a
\* reader failure or an overflow; every ended run has exit status 0 or 1, and
\* 0 only after all stages and a successful write.
StageOrder == <<"load", "read", "kernel", "sync", "release", "collect", "write">>
C10_State ==
  /\ Len(khist.stages) <= Len(StageOrder)
  /\ khist.stages = SubSeq(StageOrder, 1, Len(khist.stages))
  /\ (exit_code # -1) <=> (pc \in {"returned", "exited"})
  /\ exit_code \in {-1, 0, 1}
  /\ ReaderFailed => ~InStages("kernel")
  /\ output.written => (samples.has = "value" /\ result_index <= max_results)
  /\ InStages("collect") => result_index <= max_results
  /\ exit_code = 0 <=> output.written
  /\ exit_code = 0 => khist.stages = StageOrder
C10_Step == exit_code # -1 => UNCHANGED vars
C10_RunStateMachine == []C10_State /\ [][C10_Step]_vars

\* C10 witness: a run that went through every stage and ended with exit
\* status 0 and a non-empty output.
C10_Witness ==
  /\ exit_code = 0
  /\ output.written
  /\ output.doc # {}

Occurrences(seq, v) == Cardinality({k \in DOMAIN seq : seq[k] = v})

\* C11: the destructor puts exactly one shutdown signal per worker into the
\* queue, behind all scheduled work; each worker that takes a signal exits and
\* takes nothing more; when the destructor has returned, every scheduled task
\* was run, the queue is empty and every worker has been joined; and the
\* destructor, once begun, does return.
C11_State ==
  /\ \A k, l \in DOMAIN queue_ :
       (k < l /\ queue_[k] = Shutdown) => queue_[l] = Shutdown
  /\ \A k, l \in DOMAIN hist.popped :
       (k < l /\ hist.popped[k] = Shutdown) => hist.popped[l] = Shutdown
  /\ Occurrences(queue_, Shutdown) + Occurrences(hist.popped, Shutdown)
       = IF pc \in {"rs_join", "rs_returned"} THEN NumThreads ELSE 0
  /\ threads_.exited = Occurrences(hist.popped, Shutdown)
  /\ pc = "rs_returned" =>
       /\ threads_ = [idle |-> 0, exited |-> NumThreads]
       /\ queue_ = <<>>
       /\ \A t \in DOMAIN task : task[t].runs = 1 /\ task[t].pc = "done"
C11_PoolShutdown ==
  []C11_State /\ ((pc = "rs_shutdown") ~> (pc = "rs_returned"))

\* C11 witness: the pool has been shut down after three tasks were run, all
\* workers have taken their signal.
C11_Witness ==
  /\ pc = "rs_returned"
  /\ num_samples = 3
  /\ Len(hist.popped) = 3 + NumThreads
  /\ threads_.exited = NumThreads

\* C12: once ReadSamples has destroyed its shared state (the mutex, the
\* counter, the result and the flag go when Wait has returned), no task of
\* the call is still executing any step, and no task releases the mutex
\* after it was destroyed.
C12_NoTaskOutlivesCall ==
  /\ ~hist.late
  /\ mutex = Destroyed => \A t \in DOMAIN task : ~Executing(t)

\* C13: once a task has established num_entries and allocated the matrix, no
\* later step changes num_entries or allocates again; at most one matrix is
\* allocated per call.
C13_Step ==
  hist.first # -1 => (result'.num_entries = result.num_entries /\ allocs' = allocs)
C16_Step ==
  \A t \in DOMAIN task \cap DOMAIN task' :
    (task[t].pc = "copy" /\ task'[t].pc = "dec") =>
      /\ result.bit_sets.id # 0
      /\ NumEntries(task[t].content) = result.num_entries
      /\ Len(task[t].content) <= 2 * result.num_entries
      /\ (t + 1) * 2 * result.num_entries <= Len(result.bit_sets.words)
C16_DisjointRegionWrites == [][C16_Step]_vars

\* C14: once the result map has been built (no overflow), it has one entry
\* per Pair Result of the slots [0, cursor), (id(sample_i), id(sample_j),
\* coeff), as many entries as Pair Results, none besides, and for no entry
\* the reverse entry.
C14_SparseMapAssembly ==
  InStages("collect") =>
    /\ \A k \in 1..result_index :
         [outer |-> SampleId(results[k].sample_i),
          inner |-> SampleId(results[k].sample_j),
          coeff |-> results[k].coeff] \in result_map
    /\ \A e \in result_map : \E k \in 1..result_index :
         /\ e.outer = SampleId(results[k].sample_i)
         /\ e.inner = SampleId(results[k].sample_j)
         /\ e.coeff = results[k].coeff
    /\ \A e, f \in result_map : ~(f.outer = e.inner /\ f.inner = e.outer)
    /\ Cardinality(result_map) = result_index

\* C17: the values reserved by the atomic increments are pairwise distinct,
\* the slots written are pairwise distinct and below max_results, and a
\* kernel thread changes nothing shared but the cursor (by one) and the slot
\* it reserved.
C17_State ==
  /\ \A k, l \in DOMAIN khist.reserved :
       k # l => khist.reserved[k] # khist.reserved[l]
  /\ \A k, l \in DOMAIN khist.wrote : k # l => khist.wrote[k] # khist.wrote[l]
  /\ \A k \in DOMAIN khist.wrote : khist.wrote[k] < max_results
C17_Step ==
  (grid' # grid /\ pc # "launch") =>
    /\ \A s \in DOMAIN results :
         results'[s] # results[s] =>
           (s = result_index + 1 /\ result_index' # result_index)
    /\ UNCHANGED <<samples, num_samples, max_results, coeff_threshold,
                   result_map, output>>
C17_SlotReservation == []C17_State /\ [][C17_Step]_vars

IsItem(x) == x # Shutdown
ScheduledSoFar == [k \in 1..next_i |-> k - 1]

\* C18: the items taken from the queue so far, followed by the items still in
\* it, are the items scheduled so far in the order of their scheduling (none
\* lost, none twice, first in first out); an item is run once when it is
\* taken and never again; a worker that is idle while the queue is not empty
\* can take the front item.
C18_FifoDispatch ==
  /\ SelectSeq(hist.popped, IsItem) \o SelectSeq(queue_, IsItem) = ScheduledSoFar
  /\ \A t \in DOMAIN task :
       /\ task[t].runs <= 1
       /\ task[t].runs = 1 <=> (\E k \in DOMAIN hist.popped : hist.popped[k] = t)
       /\ task[t].runs = 0 <=> task[t].pc \in {"new", "queued"}
  /\ (Running /\ threads_.idle > 0 /\ queue_ # <<>>) => ENABLED WorkLoop
  /\ pc = "rs_returned" => \A t \in DOMAIN task : task[t].runs = 1

\* C18 witness: one item has been taken and two more wait in the queue, in
\* the order they were scheduled.
C18_Witness ==
  /\ hist.popped = <<0>>
  /\ queue_ = <<1, 2>>
  /\ threads_.idle > 0

\* The genotype of a sample at one marker, read off the two bits the sample
\* has for it: het, hom_alt, hom_ref, or missing when both bits are set.
BitOf(w, b) == (w \div 2^b) % 2
Markers == (1..samples.num_entries) \X (0..(WordBits - 1))
HetBit(x, m) == BitOf(samples.bit_sets.words[x * 2 * samples.num_entries + m[1]], m[2])
HomAltBit(x, m) ==
  BitOf(samples.bit_sets.words[(x * 2 + 1) * samples.num_entries + m[1]], m[2])
IsMissing(x, m) == HetBit(x, m) = 1 /\ HomAltBit(x, m) = 1
IsHet(x, m) == HetBit(x, m) = 1 /\ HomAltBit(x, m) = 0
IsHomAlt(x, m) == HetBit(x, m) = 0 /\ HomAltBit(x, m) = 1
IsHomRef(x, m) == HetBit(x, m) = 0 /\ HomAltBit(x, m) = 0
BothHet(S) == Cardinality({m \in S : IsHet(0, m) /\ IsHet(1, m)})
OpposingHom(S) ==
  Cardinality({m \in S : \/ IsHomRef(0, m) /\ IsHomAlt(1, m)
                         \/ IsHomRef(1, m) /\ IsHomAlt(0, m)})
MarkerCounts ==
  [num_het_i |-> Cardinality({m \in Markers : IsHet(0, m)}),
   num_het_j |-> Cardinality({m \in Markers : IsHet(1, m)}),
   num_both_het |-> BothHet(Markers),
   num_opposing_hom |-> OpposingHom(Markers)]

\* C19: the four counts ComputeKing has accumulated are, marker by marker,
\* the markers where i is het, where j is het, where both are het, and where
\* one is hom_ref and the other hom_alt, a marker missing in a sample (both
\* bits set) counting as none of these for that sample; and with counts 4, 4,
\* 4, 0 the coefficient is exactly one half.
C19_EstimatorCounts ==
  pc = "king_done" =>
    /\ results[1].counts = MarkerCounts
    /\ \A m \in Markers :
         (IsMissing(0, m) \/ IsMissing(1, m)) =>
           /\ results[1].counts.num_both_het = BothHet(Markers \ {m})
           /\ results[1].counts.num_opposing_hom = OpposingHom(Markers \ {m})
    /\ results[1].counts = [num_het_i |-> 4, num_het_j |-> 4, num_both_het |-> 4,
                            num_opposing_hom |-> 0]
         => (results[1].coeff.k = "fin"
             /\ 2 * results[1].coeff.num = results[1].coeff.den)

\* C19 witness: ComputeKing was applied to two samples with four markers
\* each, all heterozygous in both: counts 4, 4, 4, 0.
C19_Witness ==
  /\ pc = "king_done"
  /\ results[1].counts = [num_het_i |-> 4, num_het_j |-> 4, num_both_het |-> 4,
                          num_opposing_hom |-> 0]
  /\ results[1].coeff = Fin(1, 2)

\* C20: in the launched grid, every index in [0, num_samples^2) is the index
\* of exactly one thread, and so every pair (i, j) with i < j < num_samples
\* is handled (i = index / num_samples, j = index % num_samples, past the
\* guard) by exactly one thread.
C20_TaskPairMapping ==
  InStages("kernel") =>
    LET n == num_samples
        launched == Grid(n)
        Threads(x) == IF x \in DOMAIN launched THEN launched[x] ELSE 0
    IN /\ \A idx \in 0..(n * n - 1) : Threads(idx) = 1
       /\ \A i, j \in 0..(n - 1) :
            i < j =>
              /\ Threads(i * n + j) = 1
              /\ \A x \in DOMAIN launched :
                   (launched[x] > 0 /\ x \div n = i /\ x % n = j) => x = i * n + j

\* C21: ComputeKing on (sample j, sample i) gives the four counts of
\* ComputeKing on (sample i, sample j) with het_i_count and het_j_count
\* exchanged, and the same coefficient.
C21_EstimatorSymmetric ==
  pc = "king_swapped" =>
    /\ results[2].counts = [num_het_i |-> results[1].counts.num_het_j,
                            num_het_j |-> results[1].counts.num_het_i,
                            num_both_het |-> results[1].counts.num_both_het,
                            num_opposing_hom |-> results[1].counts.num_opposing_hom]
    /\ results[2].coeff = results[1].coeff

\* C22: after ComputeKing, both_het is at most the smaller of het_i_count and
\* het_j_count, so 2*both_het - 4*opposing_hom - het_i_count - het_j_count
\* is never positive; the coefficient is at most 0.5 when the smaller het
\* count is positive, and is not a positive numerator over zero (+inf) when
\* it is zero.
C22_NumeratorNeverPositive ==
  pc = "king_done" =>
    LET c == results[1].counts
        min_hets == IF c.num_het_i < c.num_het_j THEN c.num_het_i ELSE c.num_het_j
    IN /\ c.num_both_het <= min_hets
       /\ 2 * c.num_both_het - 4 * c.num_opposing_hom
            - c.num_het_i - c.num_het_j <= 0
       /\ min_hets > 0 => /\ results[1].coeff.k = "fin"
                          /\ 2 * results[1].coeff.num <= results[1].coeff.den
       /\ min_hets = 0 => results[1].coeff.k # "+inf"

====
